---- MODULE Spec2Model ----
(***************************************************************************)
(* Model of src/main.py: the recording session registry                    *)
(* (active_processes), the supervisor threads (record_live_stream), the    *)
(* start/stop request handlers, and the clip engine (clip_video with       *)
(* parse_time_to_seconds).                                                 *)
(*                                                                         *)
(* Text (form fields, time strings) is a sequence of one-character         *)
(* strings, so that strip/split/float are computed as the code computes    *)
(* them.  Python's None is the empty tuple <<>>, a float x is <<x>>.       *)
(***************************************************************************)
EXTENDS Integers, Sequences, FiniteSets, TLC

\* ------------------------------------------------------------------ bounds

\* Supervisor threads that may be spawned in one run (threading.Thread objects).
MaxThreads == 2

\* ------------------------------------------------------------- text helpers

\* str.strip() (also applied by float()): drop leading and trailing whitespace.
RECURSIVE LStrip(_)
LStrip(s) ==
    IF s # <<>> /\ Head(s) = " " THEN LStrip(Tail(s)) ELSE s

RECURSIVE RStrip(_)
RStrip(s) ==
    IF s # <<>> /\ s[Len(s)] = " " THEN RStrip(SubSeq(s, 1, Len(s) - 1)) ELSE s

Strip(s) == RStrip(LStrip(s))

\* ------------------------------------------------------------------- state

VARIABLES
    active_processes,   \* dict video_id -> (process, output_path)
    dk_entries,         \* its keys in insertion order, a dummy where one was deleted
    home,               \* the home request in progress: its lists and dict iterator
    threads,            \* the record_live_stream threads spawned so far
    processes,          \* state of the capture process each thread launched
    interrupted,        \* processes that were delivered SIGINT
    now,                \* wall clock, in seconds; the runs explored fit in one second
    request,            \* the request the event loop is handling
    response,           \* the response to the last finished request
    path,               \* the branch its handler took
    clip,               \* the clip_video call in progress, or its result
    parse,              \* the parse_time_to_seconds call made, and its result
    files,              \* DOWNLOAD_DIR: file path -> modification time and origin
    metadata,           \* trim records, keyed by artifact path
    trim,               \* the perform_trim request in progress, or its result
    last_trim           \* the perform_trim request finished just before it

\* The state the session manager and clip_video leave alone.
aside == <<parse, files, metadata, trim, last_trim>>

vars == <<active_processes, dk_entries, home, threads, processes, interrupted, now, request,
          response, path, clip, aside>>

\* Form values of video_id the presentation layer may post.
FormIds == { <<"a">>, <<"b">>, <<"a", " ">>, <<" ">> }

Tids == 1..MaxThreads

Idle == [op |-> "idle"]

NoResponse == [status |-> 0, detail |-> ""]

RedirectResponse(url) == [status |-> 303, detail |-> url]

HTTPException(code, detail) == [status |-> code, detail |-> detail]

\* An exception no handler catches: the framework answers 500.
UnhandledError(exc) == [status |-> 500, detail |-> exc]

\* del active_processes[video_id]
DictDel(d, k) == [x \in (DOMAIN d) \ {k} |-> d[x]]

\* active_processes[video_id] = value
DictSet(d, k, v) == [x \in (DOMAIN d) \cup {k} |-> IF x = k THEN v ELSE d[x]]

\* active_processes = {}
EmptyDict == [x \in {} |-> <<>>]

\* ist_time.strftime("%Y%m%d_%H%M%S"): one text per second of the clock.
Strftime(t) == <<ToString(t)>>

\* DOWNLOAD_DIR / f"{video_id}_{timestamp}.mp4"
OutputPath(video_id, t) ==
    <<"downloads/">> \o video_id \o <<"_">> \o Strftime(t) \o <<".mp4">>

Init ==
    /\ active_processes = EmptyDict
    /\ dk_entries = <<>>
    /\ home = [pc |-> "idle"]
    /\ threads = <<>>
    /\ processes = [t \in Tids |-> "none"]
    /\ interrupted = {}
    /\ now = 0
    /\ request = Idle
    /\ response = NoResponse
    /\ path = "none"
    /\ clip = [pc |-> "idle"]
    /\ parse = [pc |-> "idle"]
    /\ files = EmptyDict
    /\ metadata = EmptyDict
    /\ trim = [pc |-> "idle"]
    /\ last_trim = [pc |-> "idle"]

\* ------------------------------------------------------- the environment

\* A capture process ends: the broadcast is over, the tool failed, or it
\* honoured an interrupt.  (A process may also ignore the interrupt.)
ProcessExit(t) ==
    /\ processes[t] = "running"
    /\ processes' = [processes EXCEPT ![t] = "exited"]
    /\ UNCHANGED <<active_processes, dk_entries, home, threads, interrupted, now, aside,
                   clip, request, response, path>>

\* ----------------------------------------------- POST /start-recording

\* A request reaches the event loop, which runs one handler at a time (the
\* handlers are coroutines that never await).
Arrive(op, video_id) ==
    /\ request = Idle
    /\ op = "start" => Len(threads) < MaxThreads
    /\ request' = [op |-> op, video_id |-> video_id, pc |-> "check"]
    /\ response' = NoResponse
    /\ path' = "none"
    /\ UNCHANGED <<active_processes, dk_entries, home, threads, processes, interrupted,
                   now, aside, clip>>

Respond(r, branch) ==
    /\ request' = Idle
    /\ response' = r
    /\ path' = branch

\* StartCheck without the test of line 155: every start spawns a thread.
StartCheckAlwaysSpawns ==
    /\ request.op = "start" /\ request.pc = "check"
    /\ LET video_id == Strip(request.video_id) IN
         IF video_id = <<>>
         THEN Respond(HTTPException(400, "Video ID is required"), "start:empty")
         ELSE /\ request' = [request EXCEPT !.video_id = video_id, !.pc = "spawn"]
              /\ UNCHANGED <<response, path>>
    /\ UNCHANGED <<active_processes, dk_entries, home, threads, processes, interrupted,
                   now, aside, clip>>

\* Lines 151-156: strip the id, refuse an empty one, ignore an active one.
StartCheck ==
    /\ request.op = "start" /\ request.pc = "check"
    /\ LET video_id == Strip(request.video_id) IN
         IF video_id = <<>>
         THEN Respond(HTTPException(400, "Video ID is required"), "start:empty")
         ELSE IF video_id \in DOMAIN active_processes
         THEN Respond(RedirectResponse("/"), "start:active")
         ELSE /\ request' = [request EXCEPT !.video_id = video_id, !.pc = "spawn"]
              /\ UNCHANGED <<response, path>>
    /\ UNCHANGED <<active_processes, dk_entries, home, threads, processes, interrupted,
                   now, aside, clip>>

\* Lines 158-161: start the daemon thread and redirect.
StartSpawn ==
    /\ request.op = "start" /\ request.pc = "spawn"
    /\ threads' = Append(threads, [pc |-> "begin", video_id |-> request.video_id,
                                    output_path |-> <<>>])
    /\ Respond(RedirectResponse("/"), "start:spawned")
    /\ UNCHANGED <<active_processes, dk_entries, home, processes, interrupted, now,
                   aside, clip>>

\* ------------------------------------------------ POST /stop-recording

\* StopCheck without the test of line 165: the handler goes on to line 168.
StopCheckOmitted ==
    /\ request.op = "stop" /\ request.pc = "check"
    /\ request' = [request EXCEPT !.pc = "lookup"]
    /\ UNCHANGED <<response, path>>
    /\ UNCHANGED <<active_processes, dk_entries, home, threads, processes, interrupted,
                   now, aside, clip>>

\* Lines 165-166: an id that is not in the registry is refused.
StopCheck ==
    /\ request.op = "stop" /\ request.pc = "check"
    /\ IF request.video_id \notin DOMAIN active_processes
       THEN Respond(HTTPException(400, "No active recording for this video ID"),
                    "stop:notfound")
       ELSE /\ request' = [request EXCEPT !.pc = "lookup"]
            /\ UNCHANGED <<response, path>>
    /\ UNCHANGED <<active_processes, dk_entries, home, threads, processes, interrupted,
                   now, aside, clip>>

\* Line 168: process, output_path = active_processes[video_id].  The
\* subscript raises KeyError when the entry is gone, and nothing catches it.
StopLookup ==
    /\ request.op = "stop" /\ request.pc = "lookup"
    /\ IF request.video_id \in DOMAIN active_processes
       THEN /\ request' = [op |-> "stop", video_id |-> request.video_id,
                            pc |-> "signal",
                            process |-> active_processes[request.video_id].process]
            /\ UNCHANGED <<response, path>>
       ELSE Respond(UnhandledError("KeyError"), "stop:keyerror")
    /\ UNCHANGED <<active_processes, dk_entries, home, threads, processes, interrupted,
                   now, aside, clip>>

\* Popen.send_signal(SIGINT): delivered to a process that still runs, a no-op
\* for one that has exited.
SendSignal(p) == IF processes[p] = "running" THEN interrupted \cup {p} ELSE interrupted

\* Lines 169-173: interrupt the process and redirect to the trim prompt.
StopSignal ==
    /\ request.op = "stop" /\ request.pc = "signal"
    /\ interrupted' = SendSignal(request.process)
    /\ Respond(RedirectResponse(<<"/trim-prompt?video_id=">> \o request.video_id),
               "stop:signalled")
    /\ UNCHANGED <<active_processes, dk_entries, home, threads, processes, now, aside,
                   clip>>

\* ------------------------------------------------- record_live_stream

Goto(t, pc) == threads' = [threads EXCEPT ![t].pc = pc]

\* The slot of a deleted key in the dict's entry table.
Dummy == <<"<dummy>">>

\* d[k] = v: a new key takes the next slot of the entry table, a key already
\* present keeps its slot.  (The table has room for five entries before it
\* is rebuilt; the runs explored insert fewer.)
EntriesSet(entries, d, k) == IF k \in DOMAIN d THEN entries ELSE Append(entries, k)

\* del d[k]: the key's slot becomes a dummy.
EntriesDel(entries, k) ==
    [i \in DOMAIN entries |-> IF entries[i] = k THEN Dummy ELSE entries[i]]

\* While home iterates over the registry, every state the registry takes is
\* remembered.
Observing(d) ==
    IF home.pc = "next" THEN [home EXCEPT !.snapshots = @ \cup {d}] ELSE home

\* Lines 48-64: the output path is fixed from the clock, the command built.
ThreadBegin(t) ==
    /\ threads[t].pc = "begin"
    /\ threads' = [threads EXCEPT ![t].pc = "popen",
                                   ![t].output_path = OutputPath(threads[t].video_id, now)]
    /\ UNCHANGED <<active_processes, dk_entries, home, processes, interrupted, now,
                   aside, clip, request, response, path>>

\* Line 67: subprocess.Popen(cmd) launches the capture process ...
ThreadPopen(t) ==
    /\ threads[t].pc = "popen"
    /\ processes' = [processes EXCEPT ![t] = "running"]
    /\ Goto(t, "register")
    /\ UNCHANGED <<active_processes, dk_entries, home, interrupted, now, aside, clip,
                   request, response, path>>

\* ... or raises (the tool is missing, no process can be created): line 76.
ThreadPopenFails(t) ==
    /\ threads[t].pc = "popen"
    /\ Goto(t, "except_check")
    /\ UNCHANGED <<active_processes, dk_entries, home, processes, interrupted, now,
                   aside, clip, request, response, path>>

\* Line 68: active_processes[video_id] = (process, str(output_path))
ThreadRegister(t) ==
    /\ threads[t].pc = "register"
    /\ active_processes' = DictSet(active_processes, threads[t].video_id,
                                   [process |-> t, output_path |-> threads[t].output_path])
    /\ dk_entries' = EntriesSet(dk_entries, active_processes, threads[t].video_id)
    /\ home' = Observing(active_processes')
    /\ Goto(t, "wait")
    /\ UNCHANGED <<processes, interrupted, now, aside, clip, request, response, path>>

\* Line 70: process.wait() returns once the process has exited.
ThreadWait(t) ==
    /\ threads[t].pc = "wait"
    /\ processes[t] = "exited"
    /\ Goto(t, "check")
    /\ UNCHANGED <<active_processes, dk_entries, home, processes, interrupted, now,
                   aside, clip, request, response, path>>

\* Line 72 (and line 78 in the except clause): if video_id in active_processes
ThreadCheck(t) ==
    /\ threads[t].pc \in {"check", "except_check"}
    /\ IF threads[t].video_id \in DOMAIN active_processes
       THEN Goto(t, IF threads[t].pc = "check" THEN "del" ELSE "except_del")
       ELSE Goto(t, "done")
    /\ UNCHANGED <<active_processes, dk_entries, home, processes, interrupted, now,
                   aside, clip, request, response, path>>

\* ThreadDel that forgets the del of line 73.
ThreadDelForgotten(t) ==
    /\ threads[t].pc = "del"
    /\ Goto(t, "done")
    /\ UNCHANGED <<active_processes, dk_entries, home, processes, interrupted, now,
                   aside, clip, request, response, path>>

\* ThreadDel that empties the registry instead of removing its own entry.
ThreadDelClearsRegistry(t) ==
    /\ threads[t].pc = "del"
    /\ active_processes' = EmptyDict
    /\ dk_entries' = <<>>
    /\ home' = Observing(active_processes')
    /\ Goto(t, "done")
    /\ UNCHANGED <<processes, interrupted, now, aside, clip, request, response, path>>

\* Line 73: del active_processes[video_id].  When another thread removed
\* the entry since line 72, del raises KeyError, caught at line 76.
ThreadDel(t) ==
    /\ threads[t].pc = "del"
    /\ IF threads[t].video_id \in DOMAIN active_processes
       THEN /\ active_processes' = DictDel(active_processes, threads[t].video_id)
            /\ dk_entries' = EntriesDel(dk_entries, threads[t].video_id)
            /\ home' = Observing(active_processes')
            /\ Goto(t, "done")
       ELSE /\ Goto(t, "except_check")
            /\ UNCHANGED <<active_processes, dk_entries, home>>
    /\ UNCHANGED <<processes, interrupted, now, aside, clip, request, response, path>>

\* Line 79: the same del in the except clause; its KeyError ends the thread.
ThreadExceptDel(t) ==
    /\ threads[t].pc = "except_del"
    /\ IF threads[t].video_id \in DOMAIN active_processes
       THEN /\ active_processes' = DictDel(active_processes, threads[t].video_id)
            /\ dk_entries' = EntriesDel(dk_entries, threads[t].video_id)
            /\ home' = Observing(active_processes')
            /\ Goto(t, "done")
       ELSE /\ Goto(t, "raised")
            /\ UNCHANGED <<active_processes, dk_entries, home>>
    /\ UNCHANGED <<processes, interrupted, now, aside, clip, request, response, path>>

\* One step of thread t, whichever its position allows.
ThreadStep(t) ==
    /\ t \in DOMAIN threads
    /\ \/ ThreadBegin(t)
       \/ ThreadPopen(t)
       \/ ThreadPopenFails(t)
       \/ ThreadRegister(t)
       \/ ThreadWait(t)
       \/ ThreadCheck(t)
       \/ ThreadDel(t)
       \/ ThreadExceptDel(t)

\* ------------------------------------------------ parse_time_to_seconds

\* Longest time text posted to the trim form.
MaxTimeLen == 3

\* The characters a posted time text is made of.
TimeChars == {"1", ":", " ", "-"}

Digits == {"0", "1", "2", "3", "4", "5", "6", "7", "8", "9"}

DigitValue(c) ==
    CASE c = "0" -> 0 [] c = "1" -> 1 [] c = "2" -> 2 [] c = "3" -> 3
      [] c = "4" -> 4 [] c = "5" -> 5 [] c = "6" -> 6 [] c = "7" -> 7
      [] c = "8" -> 8 [] c = "9" -> 9

\* Python's None, and a value that is not None.
None == <<>>

Some(x) == <<x>>

RECURSIVE DecimalValue(_)
DecimalValue(s) ==
    IF s = <<>> THEN 0
    ELSE 10 * DecimalValue(SubSeq(s, 1, Len(s) - 1)) + DigitValue(s[Len(s)])

\* float(text) on texts of digits, signs, blanks and other characters:
\* blanks around the number are ignored, one sign may lead, at least one
\* digit must follow and nothing else; anything else raises ValueError (None).
Float(text) ==
    LET t == Strip(text)
        signed == t # <<>> /\ Head(t) \in {"-", "+"}
        body == IF signed THEN Tail(t) ELSE t
        value == DecimalValue(body)
    IN  IF body # <<>> /\ \A i \in 1..Len(body) : body[i] \in Digits
        THEN Some(IF signed /\ Head(t) = "-" THEN 0 - value ELSE value)
        ELSE None

\* str.split(':')
RECURSIVE Split(_)
Split(s) ==
    IF \A i \in 1..Len(s) : s[i] # ":"
    THEN <<s>>
    ELSE LET k == CHOOSE i \in 1..Len(s) :
                      s[i] = ":" /\ \A j \in 1..(i - 1) : s[j] # ":"
         IN  <<SubSeq(s, 1, k - 1)>> \o Split(SubSeq(s, k + 1, Len(s)))

\* parse_time_to_seconds with the hours of line 42 weighted like minutes.
parse_time_hours_as_minutes(time_str) ==
    IF time_str = <<>> \/ Strip(time_str) = <<>>
    THEN None
    ELSE LET t == Strip(time_str)
             parts == Split(t)
             f == [i \in 1..Len(parts) |-> Float(parts[i])]
             raised == \E i \in 1..Len(parts) : f[i] = None
         IN  IF Len(parts) = 2
             THEN IF raised THEN None ELSE Some(f[1][1] * 60 + f[2][1])
             ELSE IF Len(parts) = 3
             THEN IF raised THEN None
                  ELSE Some(f[1][1] * 60 + f[2][1] * 60 + f[3][1])
             ELSE Float(t)

\* Lines 29-45.  A failing float() raises, and the bare except returns None.
parse_time_to_seconds(time_str) ==
    IF time_str = <<>> \/ Strip(time_str) = <<>>
    THEN None
    ELSE LET t == Strip(time_str)
             parts == Split(t)
             f == [i \in 1..Len(parts) |-> Float(parts[i])]
             raised == \E i \in 1..Len(parts) : f[i] = None
         IN  IF Len(parts) = 2
             THEN IF raised THEN None ELSE Some(f[1][1] * 60 + f[2][1])
             ELSE IF Len(parts) = 3
             THEN IF raised THEN None
                  ELSE Some(f[1][1] * 3600 + f[2][1] * 60 + f[3][1])
             ELSE Float(t)

\* Longest text handed to the parser on its own.
MaxParseLen == 5

\* The characters of those texts: digits, the separator, a blank, a sign and
\* a letter.
ParseChars == {"0", "1", "2", ":", " ", "-", "a"}

ParseTexts == UNION { [1..n -> ParseChars] : n \in 0..MaxParseLen }

\* Lines 29-45: parse_time_to_seconds is called with a text and returns.
ParseCall(time_str) ==
    /\ parse.pc = "idle"
    /\ parse' = [pc |-> "done", time_str |-> time_str,
                 result |-> parse_time_to_seconds(time_str)]
    /\ UNCHANGED <<active_processes, dk_entries, home, threads, processes, interrupted, now,
                   request, response, path, clip, files, metadata, trim, last_trim>>

\* ----------------------------------------------------------- clip_video

\* Line 110: the produced file must be larger than this many bytes.
MinClipBytes == 1000

\* Path(input_path).stem: the file name without directory and suffix.
Stem(p) ==
    SubSeq(p, IF p # <<>> /\ Head(p) = "downloads/" THEN 2 ELSE 1, Len(p) - 1)

\* Path(input_path).parent
Parent(p) == IF p # <<>> /\ Head(p) = "downloads/" THEN <<"downloads/">> ELSE <<>>

\* The recording the clip is cut from, and the output paths a caller passes
\* (perform_trim passes the clip path, the default is the empty text).
InputPaths == { OutputPath(<<"a">>, 0) }

OutputPaths == { <<>>, <<"downloads/", "a", "_", "0", "_", "clip", ".mp4">> }

TimeTexts == UNION { [1..n -> TimeChars] : n \in 0..MaxTimeLen }

\* What the extraction tool can do: subprocess.run raises, or the tool exits
\* with a status and diagnostic text, leaving a file of some size or none.
FfmpegOutcomes ==
    { [raised |-> TRUE, returncode |-> 1, stderr |-> <<>>, exists |-> FALSE, size |-> 0] }
    \cup [raised : {FALSE}, returncode : {0, 1},
          stderr : { <<>>, <<" ">>, <<"moov atom not found">> },
          exists : {TRUE}, size : {0, MinClipBytes, MinClipBytes + 1}]
    \cup [raised : {FALSE}, returncode : {0, 1},
          stderr : { <<>>, <<" ">>, <<"moov atom not found">> },
          exists : {FALSE}, size : {0}]

\* Lines 98 with < in place of <=: an end equal to the start is let through.
ClipValidateStrict(start_time, end_time) ==
    LET start_sec == parse_time_to_seconds(start_time)
        end_sec == parse_time_to_seconds(end_time)
    IN  IF start_sec = None THEN "Invalid start time format"
        ELSE IF end_time = <<>> THEN ""
        ELSE IF end_sec = None THEN "Invalid end time format"
        ELSE IF end_sec[1] < start_sec[1] THEN "End time must be after start time"
        ELSE ""

\* Lines 82-84 and 94-99: the error clip_video returns before it builds the
\* rest of the command, or "" when the times pass.
ClipValidate(start_time, end_time) ==
    LET start_sec == parse_time_to_seconds(start_time)
        end_sec == parse_time_to_seconds(end_time)
    IN  IF start_sec = None THEN "Invalid start time format"
        ELSE IF end_time = <<>> THEN ""
        ELSE IF end_sec = None THEN "Invalid end time format"
        ELSE IF end_sec[1] <= start_sec[1] THEN "End time must be after start time"
        ELSE ""

\* Lines 86-106: the ffmpeg command line, as a sequence of arguments.
ClipCommand(input_path, start_time, end_time, output_path) ==
    LET start_sec == parse_time_to_seconds(start_time)[1]
        out == IF output_path = <<>>
               THEN Parent(input_path) \o Stem(input_path) \o <<"_", "clip", ".mp4">>
               ELSE output_path
    IN  << <<"ffmpeg">>, <<"-i">>, input_path, <<"-ss">>, start_sec, <<"-c">>, <<"copy">>,
           <<"-avoid_negative_ts">>, <<"make_zero">> >>
        \o (IF end_time # <<>>
            THEN << <<"-t">>, parse_time_to_seconds(end_time)[1] - start_sec >>
            ELSE <<>>)
        \o <<out>>

\* Line 110 without the tests of the produced file.
ClipResultByStatusOnly(outcome, output_path) ==
    IF outcome.raised
    THEN [success |-> FALSE, message |-> <<"Failed to run ffmpeg: ", <<"OSError">> >>]
    ELSE IF outcome.returncode = 0
    THEN [success |-> TRUE, message |-> <<"Clip created: ", output_path>>]
    ELSE [success |-> FALSE,
          message |-> <<"ffmpeg failed: ",
                        IF Strip(outcome.stderr) # <<>> THEN Strip(outcome.stderr)
                        ELSE <<"unknown error">> >>]

\* Lines 108-115: what clip_video returns once the tool was run.
ClipResult(outcome, output_path) ==
    IF outcome.raised
    THEN [success |-> FALSE, message |-> <<"Failed to run ffmpeg: ", <<"OSError">> >>]
    ELSE IF outcome.returncode = 0 /\ outcome.exists /\ outcome.size > MinClipBytes
    THEN [success |-> TRUE, message |-> <<"Clip created: ", output_path>>]
    ELSE [success |-> FALSE,
          message |-> <<"ffmpeg failed: ",
                        IF Strip(outcome.stderr) # <<>> THEN Strip(outcome.stderr)
                        ELSE <<"unknown error">> >>]

\* Lines 81-106: clip_video is called; it returns an error, or has the
\* command ready for subprocess.run.
ClipCall(input_path, start_time, end_time, output_path) ==
    /\ clip.pc = "idle"
    /\ LET error == ClipValidate(start_time, end_time) IN
         clip' = [pc |-> IF error = "" THEN "run" ELSE "done",
                  start_time |-> start_time,
                  end_time |-> end_time,
                  cmd |-> IF error = ""
                          THEN ClipCommand(input_path, start_time, end_time, output_path)
                          ELSE <<>>,
                  invoked |-> FALSE,
                  outcome |-> <<>>,
                  result |-> IF error = "" THEN <<>>
                             ELSE [success |-> FALSE, message |-> <<error>>]]
    /\ UNCHANGED <<active_processes, dk_entries, home, threads, processes, interrupted,
                   now, aside,
                   request, response, path>>

\* Lines 108-115: subprocess.run(cmd), then the verdict on what it left.
ClipRun(outcome) ==
    /\ clip.pc = "run"
    /\ clip' = [clip EXCEPT !.pc = "done",
                            !.invoked = TRUE,
                            !.outcome = outcome,
                            !.result = ClipResult(outcome, clip.cmd[Len(clip.cmd)])]
    /\ UNCHANGED <<active_processes, dk_entries, home, threads, processes, interrupted,
                   now, aside,
                   request, response, path>>

\* --------------------------------------------------------- perform_trim

\* File writes (captures and clips) in one run.
MaxWrites == 4

\* Identifiers posted to the trim form; the second contains the separator.
TrimIds == { <<"a">>, <<"a", "_", "b">> }

\* Start and end texts posted to the trim form.
TrimStarts == { <<"1">>, <<":">> }

TrimEnds == { <<>> }

\* The modification time the next write gets: later than every file's.
Newest(fs) ==
    IF DOMAIN fs = {} THEN 0
    ELSE LET stamps == { fs[f].mtime : f \in DOMAIN fs }
         IN  CHOOSE m \in stamps : \A n \in stamps : n <= m

\* DOWNLOAD_DIR.glob(f"{video_id}_*.mp4"): the name starts with the id and
\* "_", and ends with ".mp4".
Matches(video_id, f) ==
    LET name == Tail(f) IN
        /\ Len(name) >= Len(video_id) + 2
        /\ SubSeq(name, 1, Len(video_id)) = video_id
        /\ name[Len(video_id) + 1] = "_"
        /\ name[Len(name)] = ".mp4"

Glob(video_id) == { f \in DOMAIN files : Matches(video_id, f) }

\* max(candidates, key=lambda p: p.stat().st_mtime)
Latest(candidates) ==
    CHOOSE f \in candidates : \A g \in candidates : files[g].mtime <= files[f].mtime

\* Lines 217-220: DOWNLOAD_DIR / f"{input_path.stem}_clip.mp4"
ClipPath(input_path) == <<"downloads/">> \o Stem(input_path) \o <<"_", "clip", ".mp4">>

\* A capture process writes to the output path it was given (lines 51-64),
\* creating the file or appending to it.
CaptureWrites(video_id) ==
    /\ Newest(files) < MaxWrites
    /\ files' = DictSet(files, OutputPath(video_id, now),
                        [mtime |-> Newest(files) + 1,
                         origin |-> [kind |-> "capture", video_id |-> video_id]])
    /\ trim' = IF trim.pc = "idle" THEN trim ELSE [trim EXCEPT !.disturbed = TRUE]
    /\ UNCHANGED <<active_processes, dk_entries, home, threads, processes, interrupted, now,
                   request, response, path, clip, parse, metadata, last_trim>>

\* Lines 212-227: the newest file matching the id is the input; clip_video
\* checks the times and builds the command.
TrimCall(video_id, start_time, end_time, keep_original) ==
    /\ trim.pc \in {"idle", "done"}
    /\ Newest(files) < MaxWrites
    /\ last_trim' = IF trim.pc = "done" /\ ~trim.disturbed /\ trim.success
                    THEN [pc |-> "done", video_id |-> trim.video_id,
                          start_time |-> trim.start_time, end_time |-> trim.end_time,
                          keep_original |-> trim.keep_original,
                          clip_path |-> trim.clip_path]
                    ELSE [pc |-> "idle"]
    /\ LET candidates == Glob(video_id)
           input_path == Latest(candidates)
           error == ClipValidate(start_time, end_time)
           call == [pc |-> "done", video_id |-> video_id, start_time |-> start_time,
                    end_time |-> end_time, keep_original |-> keep_original,
                    input_path |-> <<>>, input_origin |-> <<>>, clip_path |-> <<>>,
                    cmd |-> <<>>, success |-> FALSE, unlink |-> "none",
                    disturbed |-> FALSE,
                    response |-> HTTPException(404, <<"No recording found">>)]
       IN  IF candidates = {}
           THEN trim' = call
           ELSE IF error # ""
           THEN trim' = [call EXCEPT !.input_path = input_path,
                                     !.input_origin = files[input_path].origin,
                                     !.clip_path = ClipPath(input_path),
                                     !.response = HTTPException(500, <<error>>)]
           ELSE trim' = [call EXCEPT !.pc = "run",
                                     !.input_path = input_path,
                                     !.input_origin = files[input_path].origin,
                                     !.clip_path = ClipPath(input_path),
                                     !.cmd = ClipCommand(input_path, start_time, end_time,
                                                         ClipPath(input_path)),
                                     !.response = NoResponse]
    /\ UNCHANGED <<active_processes, dk_entries, home, threads, processes, interrupted, now,
                   request, response, path, clip, parse, files, metadata>>

\* The files after the extraction tool ran: it leaves its output file or
\* none, and touches no other file.
FilesAfterFfmpeg(fs, outcome, clip_path, video_id) ==
    IF outcome.raised \/ ~outcome.exists THEN fs
    ELSE IF clip_path \in DOMAIN fs /\ outcome.returncode # 0 THEN fs
    ELSE DictSet(fs, clip_path,
                 [mtime |-> Newest(fs) + 1,
                  origin |-> [kind |-> "clip", video_id |-> video_id]])

\* Lines 232-234 with the unlink not waiting for the clip to have succeeded.
ShouldUnlinkWithoutSuccess(success, keep_original) == ~keep_original

\* Lines 229-234: the original is unlinked only after a successful clip, and
\* only when the caller did not ask to keep it.
ShouldUnlink(success, keep_original) == success /\ ~keep_original

\* Lines 108-115 and 229-239: the tool runs, clip_video judges what it left,
\* a failure is answered 500; else the original is unlinked if asked (a
\* failing unlink is only logged) and the request is redirected.
TrimRun(outcome, unlinked) ==
    /\ trim.pc = "run"
    /\ outcome.raised \/ outcome.exists \/ trim.clip_path \notin DOMAIN files
    /\ LET result == ClipResult(outcome, trim.cmd[Len(trim.cmd)])
           written == FilesAfterFfmpeg(files, outcome, trim.clip_path, trim.video_id)
           unlink == ShouldUnlink(result.success, trim.keep_original)
       IN  /\ unlink \/ unlinked
           /\ files' = IF unlink /\ unlinked THEN DictDel(written, trim.input_path)
                       ELSE written
           /\ trim' = [trim EXCEPT !.pc = "done",
                                    !.success = result.success,
                                    !.unlink = IF ~unlink THEN "none"
                                               ELSE IF unlinked THEN "done" ELSE "failed",
                                    !.response = IF result.success
                                                 THEN RedirectResponse("/")
                                                 ELSE HTTPException(500, result.message)]
    /\ UNCHANGED <<active_processes, dk_entries, home, threads, processes, interrupted, now,
                   request, response, path, clip, parse, metadata, last_trim>>

\* ------------------------------------------------------------------ GET /

\* A home request arrives when the event loop is free.
HomeArrive ==
    /\ request = Idle
    /\ request' = [op |-> "home"]
    /\ home' = [pc |-> "list"]
    /\ response' = NoResponse
    /\ path' = "none"
    /\ UNCHANGED <<active_processes, dk_entries, threads, processes, interrupted, now,
                   aside, clip>>

\* Lines 122-123: filename.split("_", 1)[0], or "unknown" without a "_".
RECURSIVE FilePrefix(_, _)
FilePrefix(name, i) ==
    IF i > Len(name) THEN <<"unknown">>
    ELSE IF name[i] = "_" THEN SubSeq(name, 1, i - 1)
    ELSE FilePrefix(name, i + 1)

\* Lines 119-131: the recordings found in the download directory (the
\* template gets them sorted by file name; the set holds the same entries).
HomeList ==
    /\ request.op = "home" /\ home.pc = "list"
    /\ home' = [pc |-> "iter",
                recordings |-> { [filename |-> Tail(f), video_id |-> FilePrefix(Tail(f), 1)] :
                                 f \in DOMAIN files },
                active |-> <<>>]
    /\ UNCHANGED <<active_processes, dk_entries, threads, processes, interrupted, now,
                   aside, clip, request, response, path>>

\* Line 132: active_processes.items() and the iterator of the for loop,
\* which remembers the dict's size and starts at the first slot.
HomeIter ==
    /\ request.op = "home" /\ home.pc = "iter"
    /\ home' = [pc |-> "next", recordings |-> home.recordings, active |-> home.active,
                di_used |-> Cardinality(DOMAIN active_processes), di_pos |-> 1,
                snapshots |-> {active_processes}]
    /\ UNCHANGED <<active_processes, dk_entries, threads, processes, interrupted, now,
                   aside, clip, request, response, path>>

\* The slots from position i on that hold a key.
LiveSlots(i) == { j \in i..Len(dk_entries) : dk_entries[j] # Dummy }

\* The entry home.html is given for a registered session (lines 133-137).
ActiveEntry(d, vid) ==
    [video_id |-> vid, output |-> Tail(d[vid].output_path), pid |-> d[vid].process]

\* Lines 132-147: one turn of the for loop.  The iterator raises RuntimeError
\* when the dict's size is not the one it remembers, and nothing catches it;
\* else it yields the next key's item, which the body appends; when no slot
\* is left the page is rendered.
HomeForIter ==
    /\ request.op = "home" /\ home.pc = "next"
    /\ IF home.di_used # Cardinality(DOMAIN active_processes)
       THEN /\ home' = [home EXCEPT !.pc = "raised"]
            /\ Respond(UnhandledError("RuntimeError"), "home:runtimeerror")
       ELSE IF LiveSlots(home.di_pos) = {}
       THEN /\ home' = [home EXCEPT !.pc = "done"]
            /\ Respond([status |-> 200, detail |-> "index.html"], "home:ok")
       ELSE LET j == CHOOSE j \in LiveSlots(home.di_pos) :
                         \A k \in LiveSlots(home.di_pos) : j <= k
            IN  /\ home' = [home EXCEPT
                               !.active = Append(@, ActiveEntry(active_processes,
                                                                dk_entries[j])),
                               !.di_pos = j + 1]
                /\ UNCHANGED <<request, response, path>>
    /\ UNCHANGED <<active_processes, dk_entries, threads, processes, interrupted, now,
                   aside, clip>>

\* ------------------------------------------------------- specification

\* Every step of a handler, a supervisor thread or a capture process.
Step ==
    \/ StartCheck
    \/ StartSpawn
    \/ StopCheck
    \/ StopLookup
    \/ StopSignal
    \/ \E t \in DOMAIN threads : ThreadBegin(t)
    \/ \E t \in DOMAIN threads : ThreadPopen(t)
    \/ \E t \in DOMAIN threads : ThreadPopenFails(t)
    \/ \E t \in DOMAIN threads : ThreadRegister(t)
    \/ \E t \in DOMAIN threads : ThreadWait(t)
    \/ \E t \in DOMAIN threads : ThreadCheck(t)
    \/ \E t \in DOMAIN threads : ThreadDel(t)
    \/ \E t \in DOMAIN threads : ThreadExceptDel(t)
    \/ \E t \in Tids : ProcessExit(t)

Next ==
    \/ \E op \in {"start", "stop"}, v \in FormIds : Arrive(op, v)
    \/ Step

Spec == Init /\ [][Next]_vars

\* The form values that name the one identifier "a" (or none).
FormIdsOfA == { v \in FormIds : Strip(v) \in {<<>>, <<"a">>} }

\* The same system with every request about one identifier: the sessions of
\* different identifiers share no registry key, and the progress of a session
\* is decided by the threads of its own identifier.
NextOfA ==
    \/ \E op \in {"start", "stop"}, v \in FormIdsOfA : Arrive(op, v)
    \/ Step

\* clip_video, called with every time text and run against every outcome of
\* the extraction tool.
ClipNext ==
    \/ /\ clip.pc = "idle"
       /\ \E i \in InputPaths, o \in OutputPaths, st \in TimeTexts, et \in TimeTexts :
              ClipCall(i, st, et, o)
    \/ /\ clip.pc = "run"
       /\ \E outcome \in FfmpegOutcomes : ClipRun(outcome)

SpecClip == Init /\ [][ClipNext]_vars

\* parse_time_to_seconds, called with every text.
ParseNext ==
    /\ parse.pc = "idle"
    /\ \E time_str \in ParseTexts : ParseCall(time_str)

SpecParse == Init /\ [][ParseNext]_vars

\* perform_trim on a download directory that capture processes write to.
TrimNext ==
    \/ \E v \in TrimIds : CaptureWrites(v)
    \/ /\ trim.pc \in {"idle", "done"}
       /\ \E v \in TrimIds, st \in TrimStarts, et \in TrimEnds, k \in BOOLEAN :
              TrimCall(v, st, et, k)
    \/ /\ trim.pc = "run"
       /\ \E outcome \in FfmpegOutcomes, unlinked \in BOOLEAN : TrimRun(outcome, unlinked)

SpecTrim == Init /\ [][TrimNext]_vars

\* The session manager with the home page requested as well.
HomeNext ==
    \/ HomeArrive
    \/ HomeList
    \/ HomeIter
    \/ HomeForIter
    \/ Next

SpecHome == Init /\ [][HomeNext]_vars

\* Threads are scheduled fairly (the interpreter switches threads at regular
\* intervals) and every capture process eventually exits.
FairSpec ==
    /\ Init /\ [][NextOfA]_vars
    /\ \A t \in Tids : WF_vars(ThreadStep(t))
    /\ \A t \in Tids : WF_vars(ProcessExit(t))

\* -------------------------------------------------------------- claims

\* The thread whose process the registry entry of v refers to.
Owner(v) == active_processes[v].process

\* Thread t's process is the one some registry entry refers to.
Registered(t) == \E v \in DOMAIN active_processes : Owner(v) = t

\* The capture processes running for identifier v.
Capturing(v) ==
    { t \in DOMAIN threads : threads[t].video_id = v /\ processes[t] = "running" }

\* Nothing but the request and its response changes in this step.
NoSideEffect ==
    UNCHANGED <<active_processes, dk_entries, home, threads, processes, interrupted,
                now, aside, clip>>

\* C1: start requests for one identifier, however their handlers and the
\* supervisor threads interleave, leave at most one capture process running
\* for it (one session, one process; the other request launches nothing).
C1_OneCapturePerIdentifier ==
    \A v \in {Strip(f) : f \in FormIds} : Cardinality(Capturing(v)) <= 1

\* C2: a registry entry is deleted only by the thread that launched the
\* process it refers to, and only once that process has exited.
C2_DeletedOnlyByOwnerAfterExit ==
    [][\A v \in DOMAIN active_processes :
          v \notin DOMAIN active_processes' =>
              /\ processes[Owner(v)] = "exited"
              /\ threads'[Owner(v)].pc # threads[Owner(v)].pc]_vars

\* C3: no capture process is running for an identifier that has no registry
\* entry (the identifier is reserved before the process is launched).
C3_ReservedBeforeLaunch ==
    \A t \in DOMAIN threads :
        processes[t] = "running" => threads[t].video_id \in DOMAIN active_processes

\* C4: every session that is ever registered is eventually removed from
\* active_processes, given fair scheduling and processes that exit.
C4_EveryRegisteredSessionIsReleased ==
    \A t \in Tids : Registered(t) ~> ~Registered(t)

\* C4 witness: a session was registered, its process has exited, and its
\* thread has finished with the entry gone.
C4_Witness ==
    \E t \in DOMAIN threads :
        /\ threads[t].pc = "done"
        /\ processes[t] = "exited"
        /\ threads[t].video_id \notin DOMAIN active_processes

\* C5: a stop request for an identifier with no registry entry is answered
\* with the not-found error and changes nothing: no signal, same registry.
C5_StopUnknownIsRefused ==
    [][(/\ request.op = "stop"
        /\ request.pc = "check"
        /\ request' # request
        /\ request.video_id \notin DOMAIN active_processes)
       => (/\ request' = Idle
           /\ response' = HTTPException(400, "No active recording for this video ID")
           /\ NoSideEffect)]_vars

\* C5 witness: a stop was refused while a capture process was running, and
\* no process has been interrupted.
C5_Witness ==
    /\ path = "stop:notfound"
    /\ response.status = 400
    /\ \E t \in DOMAIN threads : processes[t] = "running"
    /\ interrupted = {}

\* C6: a stop request never ends in an unhandled failure, whatever the
\* supervisor thread's cleanup does meanwhile.
C6_StopNeverFailsUnhandled ==
    ~(path \in {"stop:notfound", "stop:keyerror", "stop:signalled"}
      /\ response.status = 500)

\* C7: a stop request for an active session interrupts its process and
\* leaves the registry as it is, and the entry stays until the owning
\* thread has observed the exit of the process.
C7_StopKeepsEntryUntilOwnerCleanup ==
    [][/\ (request.op = "stop" /\ request' # request)
          => active_processes' = active_processes
       /\ (request.op = "stop" /\ request.pc = "signal" /\ request' # request)
          => /\ processes[request.process] = "running"
                  => request.process \in interrupted'
             /\ response'.status = 303
       /\ \A v \in DOMAIN active_processes :
             (Owner(v) \in interrupted /\ v \notin DOMAIN active_processes')
                 => /\ processes[Owner(v)] = "exited"
                    /\ threads'[Owner(v)].pc # threads[Owner(v)].pc]_vars

\* C8: a start request for an identifier that is in the registry spawns no
\* thread, launches nothing, leaves the registry alone and is answered with
\* the redirect an accepted start is answered with.
C8_StartOfActiveIsNoOp ==
    [][/\ (/\ request.op = "start"
            /\ request.pc = "check"
            /\ request' # request
            /\ Strip(request.video_id) \in DOMAIN active_processes)
          => (/\ request' = Idle
              /\ response' = RedirectResponse("/")
              /\ NoSideEffect)
       /\ (request.op = "start" /\ request.pc = "spawn" /\ request' # request)
          => (/\ response' = RedirectResponse("/")
              /\ Len(threads') = Len(threads) + 1)]_vars

\* C8 witness: a start was answered as already active while the session it
\* met is still recording.
C8_Witness ==
    /\ path = "start:active"
    /\ response = RedirectResponse("/")
    /\ \E t \in DOMAIN threads : Registered(t) /\ processes[t] = "running"

\* The three validation errors of clip_video.
ValidationErrors ==
    { "Invalid start time format", "Invalid end time format",
      "End time must be after start time" }

\* clip_video returned this validation error without running the tool.
RejectedWith(error) ==
    /\ clip.pc = "done"
    /\ ~clip.invoked
    /\ clip.result = [success |-> FALSE, message |-> <<error>>]

\* C9: a start that fails parsing, a non-empty end that fails parsing, and an
\* end not after the start are each rejected before the extraction tool is
\* invoked, each with an error message of its own.
C9_InvalidTimesRejectedBeforeTool ==
    clip.pc # "idle" =>
        LET start_sec == parse_time_to_seconds(clip.start_time)
            end_sec == parse_time_to_seconds(clip.end_time)
        IN  /\ start_sec = None => RejectedWith("Invalid start time format")
            /\ (start_sec # None /\ clip.end_time # <<>> /\ end_sec = None)
                   => RejectedWith("Invalid end time format")
            /\ (start_sec # None /\ end_sec # None /\ end_sec[1] <= start_sec[1])
                   => RejectedWith("End time must be after start time")
            /\ Cardinality(ValidationErrors) = 3

\* C9 witness: a request whose end equals its start was rejected, the tool
\* not having been invoked.
C9_Witness ==
    /\ clip.pc = "done"
    /\ ~clip.invoked
    /\ clip.start_time = <<"1", "1">>
    /\ clip.end_time = <<"1", "1">>
    /\ clip.result.message = <<"End time must be after start time">>

\* The tool left a file larger than the threshold.
PlausibleFile(outcome) == outcome.exists /\ outcome.size > MinClipBytes

\* C10: clip_video reports success only if the produced file exists and is
\* larger than the threshold; whatever else the tool did (exit status zero
\* included), the result is a failure that carries the tool's diagnostics.
C10_SuccessOnlyWithPlausibleFile ==
    (clip.pc = "done" /\ clip.invoked) =>
        /\ clip.result.success => PlausibleFile(clip.outcome)
        /\ (~clip.outcome.raised /\ ~PlausibleFile(clip.outcome)) =>
               /\ ~clip.result.success
               /\ clip.result.message[1] = "ffmpeg failed: "
               /\ Strip(clip.outcome.stderr) # <<>> =>
                      clip.result.message[2] = Strip(clip.outcome.stderr)
        /\ clip.outcome.raised => ~clip.result.success

\* C10 witness: the tool exited with status zero and left a file of exactly
\* the threshold size, and clip_video reported the failure.
C10_Witness ==
    /\ clip.pc = "done"
    /\ clip.invoked
    /\ clip.outcome.returncode = 0
    /\ clip.outcome.exists
    /\ clip.outcome.size = MinClipBytes
    /\ ~clip.result.success

\* C14: clip_video never invokes the extraction tool with a negative start
\* (or end): a negative time the parser produced is rejected first.
C14_NegativeTimesRejected ==
    (clip.pc = "done" /\ clip.invoked) =>
        LET start_sec == parse_time_to_seconds(clip.start_time)
            end_sec == parse_time_to_seconds(clip.end_time)
        IN  /\ start_sec # None => start_sec[1] >= 0
            /\ end_sec # None => end_sec[1] >= 0

\* The number of ':' in a text.
RECURSIVE Colons(_)
Colons(s) ==
    IF s = <<>> THEN 0 ELSE (IF Head(s) = ":" THEN 1 ELSE 0) + Colons(Tail(s))

\* A well-formed time: digits in one, two or three non-empty components.
WellFormed(s) ==
    /\ s # <<>>
    /\ \A i \in 1..Len(s) : s[i] \in Digits \cup {":"}
    /\ Colons(s) <= 2
    /\ s[1] # ":" /\ s[Len(s)] # ":"
    /\ \A i \in 1..(Len(s) - 1) : ~(s[i] = ":" /\ s[i + 1] = ":")

\* The seconds a well-formed time stands for, read left to right: each ':'
\* turns what was read so far into sixty times as much.
RECURSIVE SecondsRead(_, _, _)
SecondsRead(s, total, component) ==
    IF s = <<>> THEN total + component
    ELSE IF Head(s) = ":" THEN SecondsRead(Tail(s), (total + component) * 60, 0)
    ELSE SecondsRead(Tail(s), total, component * 10 + DigitValue(Head(s)))

\* C16: the parser's result for an absent time (empty or blank text) differs
\* from its result for a malformed one (here: a text with a letter in it).
C16_AbsentDiffersFromMalformed ==
    (parse.pc = "done" /\ \E i \in 1..Len(parse.time_str) : parse.time_str[i] = "a")
        => parse.result # parse_time_to_seconds(<<>>)

\* C17: a well-formed "s", "m:s" or "h:m:s" parses to s, 60*m + s or
\* 3600*h + 60*m + s, and a text that ':' splits into more than three
\* components is invalid.
C17_WellFormedTimesParseToSeconds ==
    parse.pc = "done" =>
        /\ WellFormed(parse.time_str)
               => parse.result = Some(SecondsRead(parse.time_str, 0, 0))
        /\ Colons(parse.time_str) >= 3 => parse.result = None

\* C17 witness: "1:0:2" was parsed to 3602 seconds.
C17_Witness ==
    /\ parse.pc = "done"
    /\ parse.time_str = <<"1", ":", "0", ":", "2">>
    /\ parse.result = Some(3602)


\* C11: every successful clip is followed by a TrimMetadata record for the
\* produced artifact; none is written for a failed clip.
C11_MetadataWrittenOnSuccess ==
    trim.pc = "done" =>
        (trim.success <=> (trim.clip_path # <<>> /\ trim.clip_path \in DOMAIN metadata))

\* C12: the step of perform_trim that runs the tool and finishes never writes
\* to the clip's source: the clip path differs from the source path, the
\* source is gone afterwards only if keep_original was false and the clip
\* succeeded, it is otherwise exactly as before, and a successful trim is
\* answered with the redirect also when the unlink failed.
C12_SourceKeptUnlessDeletionAsked ==
    [][(trim.pc = "run" /\ trim'.pc = "done") =>
          /\ trim.clip_path # trim.input_path
          /\ trim.input_path \in DOMAIN files
          /\ trim.input_path \notin DOMAIN files' =>
                 (~trim.keep_original /\ trim'.success)
          /\ trim.input_path \in DOMAIN files' =>
                 files'[trim.input_path] = files[trim.input_path]
          /\ trim'.success => trim'.response = RedirectResponse("/")]_vars

\* A successful trim whose source could not be unlinked: still redirected,
\* source still there.
C12_Witness ==
    /\ trim.pc = "done"
    /\ trim.success
    /\ ~trim.keep_original
    /\ trim.unlink = "failed"
    /\ trim.input_path \in DOMAIN files
    /\ trim.response = RedirectResponse("/")

\* C13: the same trim request issued again, the source retained and nothing
\* else in between, targets the same output path as the first.
C13_RepeatedTrimSameOutput ==
    (/\ trim.pc \in {"run", "done"}
     /\ trim.clip_path # <<>>
     /\ last_trim.pc = "done"
     /\ last_trim.keep_original
     /\ trim.video_id = last_trim.video_id
     /\ trim.start_time = last_trim.start_time
     /\ trim.end_time = last_trim.end_time
     /\ trim.keep_original = last_trim.keep_original)
        => trim.clip_path = last_trim.clip_path

\* C19: the source perform_trim selects for an identifier is a capture output
\* of that identifier, never an earlier clip or another identifier's file.
C19_SourceIsCaptureOfIdentifier ==
    (trim.pc \in {"run", "done"} /\ trim.input_path # <<>>)
        => trim.input_origin = [kind |-> "capture", video_id |-> trim.video_id]


\* A step of the request handlers.
HandlerStep == StartCheck \/ StartSpawn \/ StopCheck \/ StopLookup \/ StopSignal

\* C18: a step of record_live_stream for one identifier (registration, exit
\* cleanup, error cleanup) leaves every other identifier's registry entry as
\* it was, and while a supervisor thread waits for its process a pending
\* start or stop for another identifier can take its next step.
C18_SessionsAreIndependent ==
    /\ [][\A t \in DOMAIN threads :
              threads'[t].pc # threads[t].pc =>
                  \A b \in (DOMAIN active_processes \cup DOMAIN active_processes')
                            \ {threads[t].video_id} :
                      /\ b \in DOMAIN active_processes
                      /\ b \in DOMAIN active_processes'
                      /\ active_processes'[b] = active_processes[b]]_vars
    /\ [](\A t \in DOMAIN threads :
              (/\ threads[t].pc = "wait"
               /\ request # Idle
               /\ Strip(request.video_id) # threads[t].video_id)
                  => ENABLED HandlerStep)

\* The supervisor of "a" has removed its entry while "b" is still registered
\* and capturing.
C18_Witness ==
    /\ \E t \in DOMAIN threads : threads[t].video_id = <<"a">> /\ threads[t].pc = "done"
    /\ <<"a">> \notin DOMAIN active_processes
    /\ <<"b">> \in DOMAIN active_processes
    /\ processes[Owner(<<"b">>)] = "running"


\* The sessions of a registry state, as home reports them.
Sessions(d) == { ActiveEntry(d, vid) : vid \in DOMAIN d }

\* C15: home's enumeration of the registry never fails, and the sessions it
\* reports are those of one state the registry was in during the enumeration.
C15_EnumerationIsSnapshot ==
    /\ home.pc # "raised"
    /\ home.pc = "done" =>
           \E d \in home.snapshots :
               { home.active[i] : i \in DOMAIN home.active } = Sessions(d)

====
